---------------------------- MODULE Spec2Model ----------------------------
(***************************************************************************)
(* Model of the semantic vector index of Vera                               *)
(* (services/vera-core/app/models/semantic_space.py and the point           *)
(* endpoints of services/vera-core/app/api/endpoints/semantic.py).          *)
(*                                                                          *)
(* Numbers.  Coordinates are float32 in the source.  Here a coordinate is   *)
(* an integer count of sixtieths (One = 60 stands for 1.0), so that 0.1,    *)
(* 0.95 and the enumeration fractions idx/6 are all exact.  The weights are *)
(* counted in tenths.  A distance sqrt(s) is carried by its radicand s,     *)
(* counted in units of (1/600)^2: the square root is monotone, so order and *)
(* equality of distances are order and equality of radicands, and a         *)
(* distance equals d/600 exactly when its radicand is d*d.                  *)
(*                                                                          *)
(* Objects.  A stored SemanticPoint is identified by its position in        *)
(* points; position 0 stands for an object that is not stored (None for a   *)
(* lookup, a detached point for a query).                                   *)
(***************************************************************************)
EXTENDS Integers, Sequences, FiniteSets, TLC

\* ---------------------------------------------------------------- bounds
MaxPoints == 3
MaxSearches == 1
MaxK == 2

\* ------------------------------------------------------------- constants
\* the literal 1.0 of the circular correction, in sixtieths
One == 60
\* the name of an unnamed point (Python None)
None == "None"
\* the names callers use
Names == {"a", "b"}
\* np.array([1.0, 0.8, 0.9, 0.7, 0.5, 1.2, 0.6]), in tenths
weights == <<10, 8, 9, 7, 5, 12, 6>>
\* len(ObservationPosition)
NumPositions == 7

Abs(x) == IF x < 0 THEN 0 - x ELSE x
Min(a, b) == IF a <= b THEN a ELSE b
Sq(x) == x * x

\* ------------------------------------------------------- the metric (pure)
\* a variant that forgets the absolute value of the raw difference
CircularDiff_NoAbs(d) == Min(d, One - d)
\* a variant that keeps the raw difference on the circular axis
CircularDiff_Raw(d) == Abs(d)
\* a variant that takes the long way round the circle
CircularDiff_Far(d) == One - Abs(d)

\* diff[4] = min(abs(diff[4]), 1.0 - abs(diff[4]))
CircularDiff(d) == Min(Abs(d), One - Abs(d))

\* diff = v1 - v2 with the correction on index 4 (the fifth axis, o)
Diff(v1, v2) ==
    [k \in 1..7 |-> IF k = 5 THEN CircularDiff(v1[k] - v2[k]) ELSE v1[k] - v2[k]]

\* a variant with the weights of the axes y and z exchanged
WeightedSumSq_Swapped(d) ==
    Sq(10 * d[1]) + Sq(9 * d[2]) + Sq(8 * d[3]) + Sq(7 * d[4])
        + Sq(5 * d[5]) + Sq(12 * d[6]) + Sq(6 * d[7])

\* np.sum((weights * diff) ** 2); np.sqrt of it is carried by this radicand
WeightedSumSq(d) ==
    Sq(weights[1] * d[1]) + Sq(weights[2] * d[2]) + Sq(weights[3] * d[3])
        + Sq(weights[4] * d[4]) + Sq(weights[5] * d[5]) + Sq(weights[6] * d[6])
        + Sq(weights[7] * d[7])

\* the distance of two coordinate vectors (lines 156-167 of calculate_distance)
Distance(v1, v2) == WeightedSumSq(Diff(v1, v2))

\* ------------------------------------------------------------ SemanticPoint
\* SemanticPoint(coords=..., name=...)
SemanticPoint(coords, name) == [coords |-> coords, name |-> name]

\* to_vector: a copy of the coordinates
to_vector(p) == p.coords

\* SemanticPoint.update(k=v) on the coordinate vector.  v is in sixtieths for
\* x, y, z, t, i and n, and an enumeration index 0..6 for o.
update(coords, k, v) ==
    IF k \in {"x", "y", "z", "t", "i"}
    THEN LET idx == CASE k = "x" -> 1 [] k = "y" -> 2 [] k = "z" -> 3
                      [] k = "t" -> 4 [] k = "i" -> 5
         IN  [coords EXCEPT ![idx] = v]
    ELSE IF k = "o"
    THEN [coords EXCEPT ![5] = (v * One) \div (NumPositions - 1)]
    ELSE [coords EXCEPT ![7] = (v \div One) * One]

\* ------------------------------------------------------------------ state
VARIABLES
    points,         \* SemanticSpace.points: the sequence of stored points
    point_index,    \* SemanticSpace._point_index: name -> position (1-based)
    point_vectors,  \* SemanticSpace._point_vectors: [present, rows]
    metrics,        \* SemanticSpace.metrics: the two counters
    last,           \* the last call on the Space and what it returned
    dp,             \* the two points handed to calculate_distance
    dout,           \* the distances calculate_distance has returned so far
    file,           \* the JSON file save_to_file writes and load_from_file reads
    batch,          \* the pairs, futures and completion order of a batch of distances
    pt,             \* a point object outside any Space, with its timestamps
    now,            \* the last reading of time.time()
    threads,        \* the calls the caller's threads are running on the Space
    mem             \* the arrays in memory and who refers to which

vars == <<points, point_index, point_vectors, metrics, last, dp, dout, file, batch, pt, now, threads, mem>>

\* the coordinate vectors callers construct points from
ZeroVec == <<0, 0, 0, 0, 0, 0, 0>>
VecA == ZeroVec
VecB == <<One, 0, 0, 0, 0, 0, 0>>
VecC == <<0, One, 0, 0, 0, 0, 0>>
CoordPool == {VecA, VecB}

\* a thread that runs no call
IdleThread ==
    [pc |-> "idle", op |-> "none", name |-> None, name2 |-> None, idx |-> 0,
     k |-> 0, cache0 |-> [present |-> FALSE, rows |-> <<>>], built |-> <<>>,
     loc |-> 0, status |-> "none", res |-> <<>>]

MaxThreads == 2

NoThreads == [t \in 1..MaxThreads |-> IdleThread]

\* no array allocated
NoMem == [heap |-> <<>>, coords |-> <<>>, vec |-> 0,
          cache |-> [present |-> FALSE, rows |-> <<>>]]

\* no point object constructed yet
NoPoint == [coords |-> <<>>, name |-> None, created_at |-> 0, updated_at |-> 0]

\* no batch submitted
NoBatch == [status |-> "idle", pairs |-> <<>>, futures |-> <<>>, order |-> <<>>]

\* no file at the path yet
NoFile == [exists |-> FALSE, json |-> FALSE, keys |-> {}, points |-> <<>>,
           metrics |-> [distance_calls |-> 0, neighbor_searches |-> 0]]

NoCache == [present |-> FALSE, rows |-> <<>>]
NoCall == [op |-> "none", name |-> None, name2 |-> None, idx |-> 0, k |-> 0,
           args |-> <<>>, status |-> "none", res |-> <<>>]

\* a name counts as a name when it is truthy (`if p.name`)
Truthy(name) == name # None

\* np.vstack([p.to_vector() for p in self.points])
vstack(pts) == [k \in 1..Len(pts) |-> to_vector(pts[k])]

\* {p.name: i for i, p in enumerate(self.points) if p.name}
IndexOf(pts) ==
    LET keys == {pts[k].name : k \in {j \in 1..Len(pts) : Truthy(pts[j].name)}}
    IN  [n \in keys |-> CHOOSE k \in 1..Len(pts) :
            /\ pts[k].name = n
            /\ \A j \in 1..Len(pts) : pts[j].name = n => j <= k]

\* the second half of _rebuild_index: the cache is rebuilt only `if self.points`
RebuildVectors(pts, cache) ==
    IF pts # <<>> THEN [present |-> TRUE, rows |-> vstack(pts)] ELSE cache

\* idx = self._point_index.get(point_id): the position, 0 for None
Lookup(index, point_id) == IF point_id \in DOMAIN index THEN index[point_id] ELSE 0

\* get_point: the stored point (its position), 0 for None
get_point(point_id) == Lookup(point_index, point_id)

Init ==
    /\ points = <<>>
    /\ point_index = IndexOf(<<>>)
    /\ point_vectors = NoCache
    /\ metrics = [distance_calls |-> 0, neighbor_searches |-> 0]
    /\ last = NoCall
    /\ dp = <<>>
    /\ dout = <<>>
    /\ file = NoFile
    /\ batch = NoBatch
    /\ pt = NoPoint
    /\ now = 0
    /\ threads = NoThreads
    /\ mem = NoMem

\* ------------------------------------------------------------- add_point
\* a variant of the replace branch that appends instead
add_point_Append(pts, idx, point) == Append(pts, point)

\* self.points[idx] = point
add_point_Replace(pts, idx, point) == [pts EXCEPT ![idx] = point]

add_point(point) ==
    IF point.name \in DOMAIN point_index
    THEN LET idx == point_index[point.name]
         IN  /\ points' = add_point_Replace(points, idx, point)
             /\ UNCHANGED <<point_index, point_vectors>>
             /\ last' = [NoCall EXCEPT !.op = "add_point", !.name = point.name,
                                       !.idx = idx, !.status = "replaced",
                                       !.res = <<point>>]
    ELSE /\ Len(points) < MaxPoints
         /\ points' = Append(points, point)
         /\ point_index' = [n \in DOMAIN point_index \cup {point.name} |->
                              IF n = point.name THEN Len(points) + 1
                              ELSE point_index[n]]
         /\ point_vectors' = NoCache
         /\ last' = [NoCall EXCEPT !.op = "add_point", !.name = point.name,
                                   !.idx = Len(points) + 1, !.status = "appended",
                                   !.res = <<point>>]

AddPoint ==
    \E coords \in CoordPool, name \in Names \cup {None} :
        /\ add_point(SemanticPoint(coords, name))
        /\ UNCHANGED <<metrics, dp, dout, file, batch, pt, now, threads, mem>>

\* ---------------------------------------------------------- update_point
\* get_point_or_404(point_id), then point.update(k=v) on the stored object
UpdatePoint ==
    \E name \in Names, kv \in {<<"x", One>>} :
        LET idx == get_point(name)
        IN  /\ IF idx = 0
               THEN /\ UNCHANGED points
                    /\ last' = [NoCall EXCEPT !.op = "update", !.name = name,
                                              !.status = "404"]
               ELSE /\ points' = [points EXCEPT ![idx].coords =
                                      update(points[idx].coords, kv[1], kv[2])]
                    /\ last' = [NoCall EXCEPT !.op = "update", !.name = name,
                                              !.idx = idx, !.status = "ok"]
            /\ UNCHANGED <<point_index, point_vectors, metrics, dp, dout, file, batch, pt, now, threads, mem>>

\* ---------------------------------------------------------- delete_point
\* a variant of the filter that drops the first point instead
new_points_First(pts, point_id) == IF pts = <<>> THEN pts ELSE Tail(pts)

\* [p for p in semantic_space.points if p.name != point_id]
new_points(pts, point_id) ==
    LET keep(p) == p.name # point_id IN SelectSeq(pts, keep)

DeletePoint ==
    \E name \in Names :
        LET idx == get_point(name)
        IN  /\ IF idx = 0
               THEN /\ UNCHANGED <<points, point_index, point_vectors>>
                    /\ last' = [NoCall EXCEPT !.op = "delete_point", !.name = name,
                                              !.status = "404"]
               ELSE /\ points' = new_points(points, name)
                    /\ point_index' = IndexOf(points')
                    /\ point_vectors' = RebuildVectors(points', point_vectors)
                    /\ last' = [NoCall EXCEPT !.op = "delete_point", !.name = name,
                                              !.idx = idx, !.status = "ok"]
            /\ UNCHANGED <<metrics, dp, dout, file, batch, pt, now, threads, mem>>

\* ------------------------------------------------ find_nearest_neighbors
\* SemanticPoint.__eq__(points[i], query): the same object is equal to itself
\* (the identity shortcut of the list scan); two different objects compare
\* their field dicts, coords first, and `==` of two different ndarrays of 7
\* entries has no truth value: the comparison raises ValueError.
PointEq(i, ref) == IF i = ref THEN "True" ELSE "ValueError"

\* `point in self.points` / `self.points.index(point)`: scan from the front
RECURSIVE ListIndex(_, _, _)
ListIndex(n, ref, i) ==
    IF i > n THEN [status |-> "absent", idx |-> 0]
    ELSE IF PointEq(i, ref) = "True" THEN [status |-> "found", idx |-> i]
    ELSE IF PointEq(i, ref) = "ValueError" THEN [status |-> "ValueError", idx |-> 0]
    ELSE ListIndex(n, ref, i + 1)

\* distances = np.sqrt(np.sum((weights * diff) ** 2, axis=1)) over the cache
Distances(rows, qvec) == [j \in 1..Len(rows) |-> Distance(rows[j], qvec)]

\* point_indices[mask] / distances[mask]: drop position point_idx (0: keep all)
Masked(seq, point_idx) ==
    [j \in 1..(IF point_idx = 0 THEN Len(seq) ELSE Len(seq) - 1) |->
        IF point_idx = 0 \/ j < point_idx THEN seq[j] ELSE seq[j + 1]]

\* the injective sequences of length k over 1..c
Arrangements(k, c) ==
    {t \in [1..k -> 1..c] : \A i, j \in 1..k : i # j => t[i] # t[j]}

\* np.argpartition(distances, k)[:k]: the k smallest, in any order
ArgPartition(dist, k) ==
    {t \in Arrangements(k, Len(dist)) :
        \A i \in 1..k : \A j \in 1..Len(dist) :
            (\A h \in 1..k : t[h] # j) => dist[t[i]] <= dist[j]}

\* np.argsort(top_k_distances): a permutation that sorts ascending
ArgSort(seq) ==
    {s \in Arrangements(Len(seq), Len(seq)) :
        \A i \in 1..(Len(seq) - 1) : seq[s[i]] <= seq[s[i + 1]]}

\* [(self.points[point_indices[i]], float(top_k_distances[i]))
\*  for i in sorted_indices]
ResultOf(point_indices, top_k_indices, top_k_distances, sorted_indices) ==
    [j \in 1..Len(sorted_indices) |->
        <<point_indices[sorted_indices[j]], top_k_distances[sorted_indices[j]]>>]

\* k = min(k, len(point_indices))
ClampK(k, c) == Min(k, c)

\* the queries callers pass: a name, a stored point object or a detached point
NameQueries == [kind : {"str"}, name : Names, ref : {0}, coords : {ZeroVec}]
Queries ==
    NameQueries
      \cup [kind : {"stored"}, name : {None}, ref : 1..Len(points), coords : {ZeroVec}]
      \cup [kind : {"detached"}, name : {None}, ref : {0}, coords : {VecB}]

\* lines 183-223, for the query object ref (0: detached) with vector qvec
find_nearest_neighbors(call, ref, qvec, k0) ==
    IF points = <<>>
    THEN /\ last' = [call EXCEPT !.status = "ok", !.res = <<>>]
         /\ UNCHANGED <<point_vectors, metrics>>
    ELSE
      LET cache == IF point_vectors.present THEN point_vectors
                   ELSE [present |-> TRUE, rows |-> vstack(points)]
          distances == Distances(cache.rows, qvec)
          all_indices == [j \in 1..Len(points) |-> j]
          found == ListIndex(Len(points), ref, 1)
      IN
      /\ point_vectors' = cache
      /\ IF found.status = "ValueError"
         THEN /\ last' = [call EXCEPT !.status = "ValueError"]
              /\ UNCHANGED metrics
         ELSE IF Len(cache.rows) # Len(points)
         THEN /\ last' = [call EXCEPT !.status = "IndexError"]
              /\ UNCHANGED metrics
         ELSE
           LET dist == Masked(distances, found.idx)
               point_indices == Masked(all_indices, found.idx)
               k == ClampK(k0, Len(point_indices))
           IN  IF k <= 0
               THEN /\ last' = [call EXCEPT !.status = "ok", !.res = <<>>]
                    /\ UNCHANGED metrics
               ELSE IF k >= Len(dist)
               THEN \* np.argpartition: kth(=k) out of bounds
                    /\ last' = [call EXCEPT !.status = "ValueError"]
                    /\ UNCHANGED metrics
               ELSE \E top_k_indices \in ArgPartition(dist, k) :
                      LET top_k_distances == [j \in 1..k |-> dist[top_k_indices[j]]]
                      IN  \E sorted_indices \in ArgSort(top_k_distances) :
                            /\ last' = [call EXCEPT !.status = "ok", !.res =
                                   ResultOf(point_indices, top_k_indices,
                                            top_k_distances, sorted_indices)]
                            /\ metrics' = [metrics EXCEPT !.neighbor_searches = @ + 1]

FindNearestNeighbors(Q) ==
    /\ metrics.neighbor_searches < MaxSearches
    /\ \E q \in Q, k \in 1..MaxK :
        LET call == [NoCall EXCEPT !.op = "find_nearest_neighbors",
                                   !.name = q.name, !.k = k]
        IN
        /\ IF q.kind = "str"
           THEN LET idx == get_point(q.name)
                IN  IF idx = 0
                    THEN /\ last' = [call EXCEPT !.status = "NotFound"]
                         /\ UNCHANGED <<point_vectors, metrics>>
                    ELSE find_nearest_neighbors(
                             [call EXCEPT !.idx = idx], idx, to_vector(points[idx]), k)
           ELSE IF q.kind = "stored"
           THEN find_nearest_neighbors(
                    [call EXCEPT !.idx = q.ref], q.ref, to_vector(points[q.ref]), k)
           ELSE find_nearest_neighbors(call, 0, q.coords, k)
        /\ UNCHANGED <<points, point_index, dp, dout, file, batch, pt, now, threads, mem>>

Next == AddPoint \/ UpdatePoint \/ DeletePoint \/ FindNearestNeighbors(NameQueries)

Spec == Init /\ [][Next]_vars

\* --------------------------------------- neighbour search on a built Space
MaxKnnPoints == 3

\* the point lists handed to SemanticSpace(points): truthy names are unique
KnnPopulations ==
    UNION {
      {pts \in [1..n -> [coords : {VecA, VecB, VecC}, name : Names \cup {None}]] :
          \A i, j \in 1..n :
              (i # j /\ Truthy(pts[i].name)) => pts[i].name # pts[j].name}
      : n \in 0..MaxKnnPoints}

\* SemanticSpace.__init__(points)
InitKnn ==
    \E pts \in KnnPopulations :
        /\ points = pts
        /\ point_index = IndexOf(pts)
        /\ point_vectors = RebuildVectors(pts, NoCache)
        /\ metrics = [distance_calls |-> 0, neighbor_searches |-> 0]
        /\ last = NoCall
        /\ dp = <<>>
        /\ dout = <<>>
    /\ file = NoFile
    /\ batch = NoBatch
    /\ pt = NoPoint
    /\ now = 0
    /\ threads = NoThreads
    /\ mem = NoMem

NextKnn == FindNearestNeighbors(Queries)

SpecKnn == InitKnn /\ [][NextKnn]_vars

\* -------------------------------------------------- calculate_distance
\* the values a caller may put on axis k (sixtieths)
AxisValues(k) ==
    IF k \in 1..4 THEN {0 - One, 0, One}
    ELSE IF k = 5 THEN {0, 6, 57, One}
    ELSE IF k = 6 THEN {0, 30, One}
    ELSE {0, One, 2 * One}

Bases == {ZeroVec, <<30, 0 - 30, One, 0 - One, 6, 30, One>>}

\* the coordinate vectors of the points handed to calculate_distance
DistVectors ==
    UNION {{[b EXCEPT ![k] = v] : b \in Bases, v \in AxisValues(k)} : k \in 1..7}

\* lines 156-167: the distance of two SemanticPoint objects
calculate_distance(p1, p2) == Distance(p1.coords, p2.coords)

InitDist ==
    /\ points = <<>>
    /\ point_index = IndexOf(<<>>)
    /\ point_vectors = NoCache
    /\ metrics = [distance_calls |-> 0, neighbor_searches |-> 0]
    /\ last = NoCall
    /\ dp \in [1..2 -> [coords : DistVectors, name : {None}]]
    /\ dout = <<>>
    /\ file = NoFile
    /\ batch = NoBatch
    /\ pt = NoPoint
    /\ now = 0
    /\ threads = NoThreads
    /\ mem = NoMem

\* space.calculate_distance(dp[i], dp[j]) on two point objects
CalculateDistanceOf(i, j) ==
    /\ <<i, j>> \notin DOMAIN dout
    /\ dout' = [c \in DOMAIN dout \cup {<<i, j>>} |->
                   IF c = <<i, j>> THEN calculate_distance(dp[i], dp[j])
                   ELSE dout[c]]
    /\ metrics' = [metrics EXCEPT !.distance_calls = @ + 1]
    /\ UNCHANGED <<points, point_index, point_vectors, last, dp, file, batch, pt, now, threads, mem>>

CalculateDistance == \E i, j \in 1..2 : CalculateDistanceOf(i, j)

NextDist == CalculateDistance

SpecDist == InitDist /\ [][NextDist]_vars

\* =================================================================== claims
\* the points of a list whose name counts as a name
NamedPositions(pts) == {k \in 1..Len(pts) : Truthy(pts[k].name)}

\* C1: whenever the cached coordinate matrix is present it has exactly
\* len(points) rows and row k equals points[k].coords for every k.
C1_CacheMatchesPoints ==
    point_vectors.present =>
        /\ Len(point_vectors.rows) = Len(points)
        /\ \A k \in 1..Len(points) : point_vectors.rows[k] = points[k].coords

\* C2: add_point of a point whose name is already held by a stored point
\* replaces in place: the length is unchanged, the new point sits at the
\* position the old one held, every other position is unchanged, and
\* get_point(name) then returns the new point.
C2_ReplaceInPlace ==
    [][\A k \in NamedPositions(points) :
          (last'.op = "add_point" /\ last'.name = points[k].name) =>
              /\ Len(points') = Len(points)
              /\ points'[k] = last'.res[1]
              /\ \A j \in 1..Len(points) : j # k => points'[j] = points[j]
              /\ Lookup(point_index', points[k].name) = k]_vars

C2_Witness ==
    /\ last.op = "add_point"
    /\ last.status = "replaced"
    /\ Truthy(last.name)
    /\ Len(points) >= 2
    /\ points[last.idx] = last.res[1]

\* C3: the name index maps s to k exactly when points[k] exists and is named
\* s: every named point is indexed at its position, and the index holds no
\* entry for a missing position, another name or an unnamed point.
C3_IndexExact ==
    /\ \A k \in NamedPositions(points) :
          /\ points[k].name \in DOMAIN point_index
          /\ point_index[points[k].name] = k
    /\ \A s \in DOMAIN point_index :
          /\ Truthy(s)
          /\ point_index[s] \in 1..Len(points)
          /\ points[point_index[s]].name = s

\* C4: after removing a named point the sequence is exactly one shorter, the
\* other points keep their order and are still found under their own names,
\* and get_point of the removed name (of any name that is not found) stays
\* not found until a point of that name is added.
C4_RemoveThenGet ==
    [][/\ (last'.op = "delete_point" /\ last'.status = "ok" /\ points' # points) =>
            /\ Lookup(point_index', last'.name) = 0
            /\ Len(points') = Len(points) - 1
            /\ \A j \in 1..Len(points') :
                  points'[j] = IF j < last'.idx THEN points[j] ELSE points[j + 1]
            /\ \A j \in NamedPositions(points') : Lookup(point_index', points'[j].name) = j
       /\ \A n \in Names :
            (get_point(n) = 0 /\ ~(last'.op = "add_point" /\ last'.name = n))
                => Lookup(point_index', n) = 0]_vars

C4_Witness ==
    /\ last.op = "delete_point"
    /\ last.status = "ok"
    /\ last.idx = 1
    /\ Len(points) >= 2
    /\ get_point(last.name) = 0

\* the number of candidates of the last search: the stored points minus the
\* query when the query is a stored point
Candidates == IF last.idx = 0 THEN Len(points) ELSE Len(points) - 1

\* the positions the last search returned
Returned == {last.res[j][1] : j \in 1..Len(last.res)}

\* C5: find_nearest_neighbors(point, k) returns exactly min(k, c) pairs for
\* every k >= 1 (all candidates when k >= c, none when c = 0), and no omitted
\* candidate is strictly nearer than a returned one.  Stated for a query that
\* is the first stored point, as in the example A over {A, B, C}.
C5_ReturnsMinKC ==
    (last.op = "find_nearest_neighbors" /\ last.idx = 1) =>
        /\ last.status = "ok"
        /\ Len(last.res) = Min(last.k, Candidates)
        /\ \A j \in 1..Len(last.res) : \A c \in 2..Len(points) :
              c \notin Returned =>
                  Distance(points[c].coords, points[1].coords)
                      >= Distance(points[last.res[j][1]].coords, points[1].coords)

\* C6: the returned list is in ascending order of distance and excludes the
\* query itself, every other stored point staying eligible; over {A, B, C}
\* with k = 2 the query A yields [(C, 0.8), (B, 1.0)].
C6_AscendingSelfExcluded ==
    (last.op = "find_nearest_neighbors" /\ last.idx = 1) =>
        /\ last.status = "ok" =>
              /\ \A j \in 1..(Len(last.res) - 1) :
                    last.res[j][2] <= last.res[j + 1][2]
              /\ 1 \notin Returned
        /\ (/\ last.k = 2
            /\ vstack(points) = <<VecA, VecB, VecC>>) =>
              /\ last.status = "ok"
              /\ last.res = << <<3, Sq(8 * One)>>, <<2, Sq(10 * One)>> >>

\* the two vectors differ on axis k and on no other axis
DifferOnlyOn(v1, v2, k) ==
    /\ v1[k] # v2[k]
    /\ \A h \in 1..7 : h # k => v1[h] = v2[h]

\* C7: calculate_distance(p1, p2) == calculate_distance(p2, p1).
C7_Symmetric ==
    (<<1, 2>> \in DOMAIN dout /\ <<2, 1>> \in DOMAIN dout) =>
        dout[<<1, 2>>] = dout[<<2, 1>>]

C7_Witness ==
    /\ <<1, 2>> \in DOMAIN dout
    /\ <<2, 1>> \in DOMAIN dout
    /\ dp[1].coords[5] # dp[2].coords[5]
    /\ dout[<<1, 2>>] > 0

\* C8: calculate_distance(p, p) == 0.
C8_SelfZero ==
    \A i \in 1..2 : <<i, i>> \in DOMAIN dout => dout[<<i, i>>] = 0

C8_Witness ==
    /\ <<1, 1>> \in DOMAIN dout
    /\ dp[1].coords # ZeroVec
    /\ dp[1].coords[5] # 0

\* C9: the distance is the weighted norm with the weights
\* [1.0, 0.8, 0.9, 0.7, 0.5, 1.2, 0.6] in the order [x,y,z,t,o,i,n]: two
\* points that differ only on one non-circular axis k by delta are
\* weight_k * |delta| apart; distance(A, B) = 1.0 and distance(A, C) = 0.8.
C9_WeightedNorm ==
    \A c \in DOMAIN dout :
        LET v1 == dp[c[1]].coords
            v2 == dp[c[2]].coords
            w == <<10, 8, 9, 7, 5, 12, 6>>
        IN  /\ \A k \in (1..7) \ {5} :
                  DifferOnlyOn(v1, v2, k) => dout[c] = Sq(w[k] * Abs(v1[k] - v2[k]))
            /\ (v1 = VecA /\ v2 = VecB) => dout[c] = Sq(10 * One)
            /\ (v1 = VecA /\ v2 = VecC) => dout[c] = Sq(8 * One)

C9_Witness ==
    /\ <<1, 2>> \in DOMAIN dout
    /\ dp[1].coords = VecA
    /\ dp[2].coords = VecC
    /\ dout[<<1, 2>>] = Sq(8 * One)

\* the two vectors differ only on axis o, with the values 0.1 and 0.95
CircularExample(v1, v2) ==
    /\ DifferOnlyOn(v1, v2, 5)
    /\ {v1[5], v2[5]} = {6, 57}

\* C10 as stated: on the circular example the squared distance is
\* (1.2 * 0.15)^2.
C10_Original ==
    \A c \in DOMAIN dout :
        CircularExample(dp[c[1]].coords, dp[c[2]].coords) => dout[c] = Sq(12 * 9)

\* C10: on the circular example calculate_distance applies the circular
\* correction (0.15, not the raw 0.85) under the weight 0.5 of axis o: the
\* squared distance is (0.5 * 0.15)^2, not (0.5 * 0.85)^2.
C10_Amended ==
    \A c \in DOMAIN dout :
        CircularExample(dp[c[1]].coords, dp[c[2]].coords) =>
            /\ dout[c] = Sq(5 * 9)
            /\ dout[c] # Sq(5 * 51)

C10_Witness ==
    /\ <<1, 2>> \in DOMAIN dout
    /\ CircularExample(dp[1].coords, dp[2].coords)
    /\ dp[1].coords[5] = 6

\* ------------------------------------------- three points, three distances
\* the coordinate vectors of the three points: o on the quarter marks of
\* [0, 1], x and i at the ends of their ranges
TriVectors ==
    {[[ZeroVec EXCEPT ![1] = x] EXCEPT ![5] = o, ![6] = i] :
        x \in {0 - One, One}, o \in {0, 15, 30, 45, One}, i \in {0, One}}

\* the calls made on the three points
TriCalls == {<<1, 2>>, <<2, 3>>, <<1, 3>>}

InitTri ==
    /\ points = <<>>
    /\ point_index = IndexOf(<<>>)
    /\ point_vectors = NoCache
    /\ metrics = [distance_calls |-> 0, neighbor_searches |-> 0]
    /\ last = NoCall
    /\ dp \in [1..3 -> [coords : TriVectors, name : {None}]]
    /\ dout = <<>>
    /\ file = NoFile
    /\ batch = NoBatch
    /\ pt = NoPoint
    /\ now = 0
    /\ threads = NoThreads
    /\ mem = NoMem

NextTri == \E c \in TriCalls : CalculateDistanceOf(c[1], c[2])

SpecTri == InitTri /\ [][NextTri]_vars

\* sqrt(a) <= sqrt(b) + sqrt(c) for radicands a, b, c, decided exactly:
\* a <= b + c + 2 sqrt(b c).  The radicands of TriVectors are multiples of
\* 15 * 15, which is divided out to keep the squares small.
RootLeSum(a0, b0, c0) ==
    LET a == a0 \div (15 * 15)
        b == b0 \div (15 * 15)
        c == c0 \div (15 * 15)
    IN  \/ a <= b + c
        \/ Sq(a - b - c) <= 4 * b * c

\* C11: calculate_distance satisfies the triangle inequality for points
\* whose axes are within their ranges (o in [0, 1]):
\* distance(p1, p3) <= distance(p1, p2) + distance(p2, p3).
C11_Triangle ==
    TriCalls \subseteq DOMAIN dout =>
        RootLeSum(dout[<<1, 3>>], dout[<<1, 2>>], dout[<<2, 3>>])

C11_Witness ==
    /\ TriCalls \subseteq DOMAIN dout
    /\ dp[1].coords[5] = 0
    /\ dp[2].coords[5] = One
    /\ dp[3].coords[5] = 45
    /\ dp[1].coords[1] # dp[3].coords[1]
    /\ dout[<<1, 3>>] > dout[<<1, 2>>]
    /\ dout[<<1, 3>>] > dout[<<2, 3>>]

\* ------------------------------------------------ save_to_file / load_from_file
\* a Space as one value: what SemanticSpace.__init__ creates and the methods
\* change
EmptySpace ==
    [points |-> <<>>, point_index |-> IndexOf(<<>>), point_vectors |-> NoCache,
     metrics |-> [distance_calls |-> 0, neighbor_searches |-> 0]]

\* the module-level semantic_space the endpoints work on
ActiveSpace ==
    [points |-> points, point_index |-> point_index,
     point_vectors |-> point_vectors, metrics |-> metrics]

\* add_point on a Space value (the method the loader calls on its own Space)
space_add_point(s, point) ==
    IF point.name \in DOMAIN s.point_index
    THEN [s EXCEPT !.points = add_point_Replace(@, s.point_index[point.name], point)]
    ELSE [s EXCEPT !.points = Append(@, point),
                   !.point_index = [n \in DOMAIN @ \cup {point.name} |->
                                       IF n = point.name THEN Len(s.points) + 1
                                       ELSE @[n]],
                   !.point_vectors = NoCache]

\* JSON values of a 'coords' entry: a list of numbers, a string, or no key
JList(items) == [type |-> "list", items |-> items]
JString == [type |-> "string", items |-> <<>>]
JAbsent == [type |-> "absent", items |-> <<>>]

\* one object of the 'points' list
Entry(coords, name) == [coords |-> coords, name |-> name]

\* a parseable document with both keys
FileDoc(entries, m) ==
    [exists |-> TRUE, json |-> TRUE, keys |-> {"points", "metrics"},
     points |-> entries, metrics |-> m]

\* what is left at the path when json.dump raises part-way through
Truncated == [NoFile EXCEPT !.exists = TRUE]

\* json.dump(data): an ndarray in a point's dict is not JSON serializable, so
\* only a Space without points can be written
Serializable(pts) == pts = <<>>

\* save_to_file: open(filepath, 'w') and json.dump
save_to_file(s) ==
    IF Serializable(s.points)
    THEN [status |-> "ok", file |-> FileDoc(<<>>, s.metrics)]
    ELSE [status |-> "TypeError", file |-> Truncated]

\* np.array(point_data['coords'], dtype=np.float32) and SemanticPoint(**point_data):
\* a list of any length becomes the coords array, a missing key gives zeros(7),
\* a string cannot be converted
EntryOk(e) == e.coords.type # "string"

EntryPoint(e) ==
    SemanticPoint(IF e.coords.type = "absent" THEN ZeroVec ELSE e.coords.items,
                  e.name)

\* the loop of load_from_file over data['points'], from entry k on
RECURSIVE LoadPoints(_, _, _)
LoadPoints(entries, k, s) ==
    IF k > Len(entries) THEN [status |-> "ok", space |-> s]
    ELSE IF ~EntryOk(entries[k]) THEN [status |-> "ValueError", space |-> s]
    ELSE LoadPoints(entries, k + 1, space_add_point(s, EntryPoint(entries[k])))

\* load_from_file(filepath): the Space it returns, or the exception it raises
load_from_file(f) ==
    IF ~f.exists THEN [status |-> "FileNotFoundError", space |-> EmptySpace]
    ELSE IF ~f.json THEN [status |-> "JSONDecodeError", space |-> EmptySpace]
    ELSE IF "points" \notin f.keys THEN [status |-> "KeyError", space |-> EmptySpace]
    ELSE LET r == LoadPoints(f.points, 1, EmptySpace)
         IN  IF r.status = "ok" /\ "metrics" \in f.keys
             THEN [r EXCEPT !.space.metrics = f.metrics]
             ELSE r

\* a variant of the assignment that also takes the Space of a failed load
import_assign_Always(active, r) == r.space

\* semantic_space = SemanticSpace.load_from_file(file_path): the global is
\* assigned only when the call returns
import_assign(active, r) == IF r.status = "ok" THEN r.space ELSE active

\* the files found at the path
FileMetrics == [distance_calls |-> 2, neighbor_searches |-> 1]

FilePool ==
    { [NoFile EXCEPT !.exists = TRUE],
      [FileDoc(<<>>, FileMetrics) EXCEPT !.keys = {"metrics"}],
      FileDoc(<<Entry(JList(VecA), "a"), Entry(JList(VecB), "b")>>, FileMetrics),
      FileDoc(<<Entry(JList(VecA), "a"), Entry(JList(VecB), "b"),
                Entry(JString, None)>>, FileMetrics),
      FileDoc(<<Entry(JList(VecA), None), Entry(JList(VecB), None)>>, FileMetrics),
      FileDoc(<<Entry(JList(<<One, 0, 0>>), "a")>>, FileMetrics),
      FileDoc(<<Entry(JAbsent, "b")>>, FileMetrics),
      [FileDoc(<<Entry(JList(VecB), "a")>>, FileMetrics) EXCEPT !.keys = {"points"}] }

\* something outside the program puts a file at the path
WriteFile ==
    \E f \in FilePool :
        /\ file' = f
        /\ last' = [NoCall EXCEPT !.op = "write_file"]
        /\ UNCHANGED <<points, point_index, point_vectors, metrics, dp, dout, batch, pt, now, threads, mem>>

\* export_space: semantic_space.save_to_file(temp_file)
SaveToFile ==
    LET r == save_to_file(ActiveSpace)
    IN  /\ file' = r.file
        /\ last' = [NoCall EXCEPT !.op = "save_to_file", !.status = r.status]
        /\ UNCHANGED <<points, point_index, point_vectors, metrics, dp, dout, batch, pt, now, threads, mem>>

\* import_space: global semantic_space; semantic_space = load_from_file(...)
ImportSpace ==
    LET r == load_from_file(file)
        s == import_assign(ActiveSpace, r)
    IN  /\ points' = s.points
        /\ point_index' = s.point_index
        /\ point_vectors' = s.point_vectors
        /\ metrics' = s.metrics
        /\ last' = [NoCall EXCEPT !.op = "import_space", !.status = r.status]
        /\ UNCHANGED <<dp, dout, file, batch, pt, now, threads, mem>>

\* new_space.load_from_file(state_file): the classmethod called on a Space,
\* its return value dropped
LoadOnHandle ==
    LET r == load_from_file(file)
    IN  /\ last' = [NoCall EXCEPT !.op = "load_from_file", !.status = r.status,
                                  !.res = r.space.points]
        /\ UNCHANGED <<points, point_index, point_vectors, metrics, dp, dout, file, batch, pt, now, threads, mem>>

NextFile == AddPoint \/ WriteFile \/ SaveToFile \/ ImportSpace \/ LoadOnHandle

SpecFile == Init /\ [][NextFile]_vars

\* C12: a load that fails (unreadable JSON, no 'points', a malformed point
\* after valid ones) leaves the active Space (points, index, cache, counters)
\* exactly as it was; the active Space is replaced only by a load that
\* parsed the whole file.
C12_FailedLoadUntouched ==
    [][(last'.op = "import_space" /\ last'.status # "ok") =>
          UNCHANGED <<points, point_index, point_vectors, metrics>>]_vars

C12_Witness ==
    /\ last.op = "import_space"
    /\ last.status = "ValueError"
    /\ Len(file.points) = 3
    /\ EntryOk(file.points[1]) /\ EntryOk(file.points[2])
    /\ Len(points) = 1
    /\ points[1].name = None

\* C13: save followed by load reproduces the Space, for every Space: the
\* same points in the same order (unnamed ones included) and the same
\* distance_calls and neighbor_searches.
C13_RoundTrip ==
    last.op = "save_to_file" =>
        LET r == load_from_file(file)
        IN  /\ r.status = "ok"
            /\ r.space.points = points
            /\ r.space.metrics = metrics

\* the points a file describes, in file order
FilePoints(f) == [k \in 1..Len(f.points) |-> EntryPoint(f.points[k])]

\* C14: after load(path) on a Space handle, the handle's points, index and
\* counters are those of the file: no earlier point survives and no point
\* of the file is missing.
C14_LoadReplaces ==
    (last.op = "load_from_file" /\ last.status = "ok") =>
        /\ points = FilePoints(file)
        /\ point_index = IndexOf(points)
        /\ "metrics" \in file.keys => metrics = file.metrics

MaxDistanceCalls == 1

\* a variant that counts the call before the points are looked up
distance_calls_after_Always(m, found) == [m EXCEPT !.distance_calls = @ + 1]

\* self.metrics.distance_calls += 1 comes after the raise for a missing point
distance_calls_after(m, found) ==
    IF found THEN [m EXCEPT !.distance_calls = @ + 1] ELSE m

\* a variant that subtracts in place (`diff = v1; diff -= v2`)
v1_after_InPlace(v1, v2) == Diff(v1, v2)

\* p1.coords after the call: `diff = v1 - v2` is a new array, so the write
\* `diff[4] = ...` of line 161 lands in it and v1 keeps its entries
v1_after(v1, v2) == v1

\* space.calculate_distance(n1, n2) with two names
CalculateDistanceNamed ==
    \E n1, n2 \in Names :
        LET p1 == get_point(n1)
            p2 == get_point(n2)
            found == p1 # 0 /\ p2 # 0
            call == [NoCall EXCEPT !.op = "calculate_distance", !.name = n1,
                                   !.name2 = n2, !.idx = p1]
        IN  /\ found => metrics.distance_calls < MaxDistanceCalls
            /\ last' = IF found
                       THEN [call EXCEPT !.status = "ok", !.res =
                                <<calculate_distance(points[p1], points[p2])>>]
                       ELSE [call EXCEPT !.status = "NotFound"]
            /\ metrics' = distance_calls_after(metrics, found)
            /\ points' = IF found
                         THEN [points EXCEPT ![p1].coords =
                                  v1_after(points[p1].coords, points[p2].coords)]
                         ELSE points
            /\ UNCHANGED <<point_index, point_vectors, dp, dout, file, batch, pt, now, threads, mem>>

\* space.get_point(name)
GetPoint ==
    \E name \in Names :
        LET idx == get_point(name)
        IN  /\ last' = [NoCall EXCEPT !.op = "get_point", !.name = name, !.idx = idx,
                           !.status = IF idx = 0 THEN "None" ELSE "ok",
                           !.res = IF idx = 0 THEN <<>> ELSE <<points[idx]>>]
            /\ UNCHANGED <<points, point_index, point_vectors, metrics, dp, dout, file, batch, pt, now, threads, mem>>

NextNames ==
    \/ AddPoint
    \/ FindNearestNeighbors(NameQueries)
    \/ CalculateDistanceNamed
    \/ GetPoint

SpecNames == Init /\ [][NextNames]_vars

\* a name the Space does not know before the call
Unknown(name) == name \notin DOMAIN point_index

\* C16: calculate_distance and find_nearest_neighbors with a name that is
\* not in the Space fail with a not-found error, get_point returns None, and
\* in each case points, index, cache and both counters stay as they were.
C16_UnknownName ==
    [][/\ ( /\ last'.op = "calculate_distance"
            /\ (Unknown(last'.name) \/ Unknown(last'.name2)) ) =>
              /\ last'.status = "NotFound"
              /\ UNCHANGED <<points, point_index, point_vectors, metrics>>
       /\ (last'.op = "find_nearest_neighbors" /\ Unknown(last'.name)) =>
              /\ last'.status = "NotFound"
              /\ UNCHANGED <<points, point_index, point_vectors, metrics>>
       /\ (last'.op = "get_point" /\ Unknown(last'.name)) =>
              /\ last'.status = "None"
              /\ UNCHANGED <<points, point_index, point_vectors, metrics>>]_vars

C16_Witness ==
    /\ last.op = "calculate_distance"
    /\ last.status = "NotFound"
    /\ last.name \in DOMAIN point_index
    /\ last.name2 \notin DOMAIN point_index
    /\ point_vectors.present
    /\ metrics.distance_calls = 1

\* ------------------------------------------------ distances of many pairs
MaxPairs == 2

\* the names callers put in pairs; "c" is never stored
PairNames == Names \cup {"c"}

\* the lists of pairs handed to the batch operations
RECURSIVE PairListsOf(_)
PairListsOf(n) ==
    IF n = 0 THEN {<<>>}
    ELSE LET shorter == PairListsOf(n - 1)
         IN  shorter \cup
             {Append(l, <<n1, n2>>) :
                 l \in {s \in shorter : Len(s) = n - 1},
                 n1 \in PairNames, n2 \in PairNames}

PairLists == PairListsOf(MaxPairs)

\* the Spaces the batches run on: SemanticSpace([a]) and SemanticSpace([a, b])
BatchPopulations ==
    { <<SemanticPoint(VecA, "a")>>,
      <<SemanticPoint(VecA, "a"), SemanticPoint(VecB, "b")>> }

InitBatch ==
    /\ points \in BatchPopulations
    /\ point_index = IndexOf(points)
    /\ point_vectors = RebuildVectors(points, NoCache)
    /\ metrics = [distance_calls |-> 0, neighbor_searches |-> 0]
    /\ last = NoCall
    /\ dp = <<>>
    /\ dout = <<>>
    /\ file = NoFile
    /\ batch = NoBatch
    /\ pt = NoPoint
    /\ now = 0
    /\ threads = NoThreads
    /\ mem = NoMem

\* executor.submit(self.calculate_distance, p1, p2) for p1, p2 in point_pairs
Future == [st |-> "pending", loc |-> 0, d |-> 0]

SubmitBatch ==
    \E point_pairs \in PairLists :
        /\ batch.status = "idle"
        /\ batch' = [status |-> "running", pairs |-> point_pairs,
                     futures |-> [i \in 1..Len(point_pairs) |-> Future],
                     order |-> <<>>]
        /\ UNCHANGED <<points, point_index, point_vectors, metrics, last, dp, dout, file, pt, now, threads, mem>>

\* a worker thread runs calculate_distance(p1, p2) up to the read of the
\* counter in `self.metrics.distance_calls += 1`; a missing point raises and
\* completes the future with the exception
WorkerRead(i) ==
    /\ batch.status = "running"
    /\ batch.futures[i].st = "pending"
    /\ LET p1 == get_point(batch.pairs[i][1])
           p2 == get_point(batch.pairs[i][2])
       IN  IF p1 = 0 \/ p2 = 0
           THEN batch' = [batch EXCEPT !.futures[i].st = "failed",
                                       !.order = Append(@, i)]
           ELSE batch' = [batch EXCEPT !.futures[i] =
                             [st |-> "read", loc |-> metrics.distance_calls,
                              d |-> calculate_distance(points[p1], points[p2])]]
    /\ UNCHANGED <<points, point_index, point_vectors, metrics, last, dp, dout, file, pt, now, threads, mem>>

\* the worker stores the incremented counter and returns: the future completes
WorkerWrite(i) ==
    /\ batch.status = "running"
    /\ batch.futures[i].st = "read"
    /\ metrics' = [metrics EXCEPT !.distance_calls = batch.futures[i].loc + 1]
    /\ batch' = [batch EXCEPT !.futures[i].st = "done", !.order = Append(@, i)]
    /\ UNCHANGED <<points, point_index, point_vectors, last, dp, dout, file, pt, now, threads, mem>>

\* as_completed(futures): the futures in the order they finished
as_completed(futures, order) == order

\* return [f.result() for f in as_completed(futures)], once every worker
\* has finished
CollectBatch ==
    /\ batch.status = "running"
    /\ \A i \in 1..Len(batch.futures) : batch.futures[i].st \in {"done", "failed"}
    /\ LET fs == as_completed(batch.futures, batch.order)
           call == [NoCall EXCEPT !.op = "batch_calculate_distances"]
       IN  last' = IF \E i \in 1..Len(batch.futures) : batch.futures[i].st = "failed"
                   THEN [call EXCEPT !.status = "NotFound"]
                   ELSE [call EXCEPT !.status = "ok", !.res =
                            [k \in 1..Len(fs) |-> batch.futures[fs[k]].d]]
    /\ batch' = [batch EXCEPT !.status = "returned"]
    /\ UNCHANGED <<points, point_index, point_vectors, metrics, dp, dout, file, pt, now, threads, mem>>

\* point_dict = {p.name: p for p in self.space.points if p.name is not None}
point_dict == {points[k].name : k \in {j \in 1..Len(points) : points[j].name # None}}

\* the loop that collects the missing references: one (i, id) per pair,
\* id1 when id1 is missing, otherwise id2; pair numbers start at 0
RECURSIVE MissingFrom(_, _)
MissingFrom(point_pairs, i) ==
    IF i > Len(point_pairs) THEN <<>>
    ELSE LET id1 == point_pairs[i][1]
             id2 == point_pairs[i][2]
             rest == MissingFrom(point_pairs, i + 1)
         IN  IF id1 \notin point_dict \/ id2 \notin point_dict
             THEN <<<<i - 1, IF id1 \notin point_dict THEN id1 ELSE id2>>>> \o rest
             ELSE rest

\* SemanticOperations.parallel_distance_calculation(point_pairs): the nested
\* function handed to ProcessPoolExecutor.map cannot be pickled, so the call
\* raises as soon as there is a pair to compute
ParallelDistanceCalculation ==
    \E point_pairs \in PairLists :
        LET missing == MissingFrom(point_pairs, 1)
            call == [NoCall EXCEPT !.op = "parallel_distance_calculation"]
        IN  /\ batch.status = "idle"
            /\ batch' = [NoBatch EXCEPT !.status = "returned", !.pairs = point_pairs]
            /\ last' = IF point_pairs = <<>> THEN [call EXCEPT !.status = "ok"]
                       ELSE IF missing # <<>>
                       THEN [call EXCEPT !.status = "NotFound",
                                         !.res = SubSeq(missing, 1, Min(5, Len(missing)))]
                       ELSE [call EXCEPT !.status = "PicklingError"]
            /\ UNCHANGED <<points, point_index, point_vectors, metrics, dp, dout, file, pt, now, threads, mem>>

NextBatch ==
    \/ SubmitBatch
    \/ \E i \in 1..Len(batch.futures) : WorkerRead(i)
    \/ \E i \in 1..Len(batch.futures) : WorkerWrite(i)
    \/ CollectBatch
    \/ ParallelDistanceCalculation

SpecBatch == InitBatch /\ [][NextBatch]_vars

\* every name of the pairs is stored in the Space
Resolvable(point_pairs) ==
    \A i \in 1..Len(point_pairs) :
        point_pairs[i][1] \in DOMAIN point_index /\ point_pairs[i][2] \in DOMAIN point_index

\* C17: for every list of resolvable pairs and every completion order of the
\* workers, both batch operations return one distance per pair, result[i]
\* being the distance of pairs[i].
C17_InputOrder ==
    ( /\ last.op \in {"batch_calculate_distances", "parallel_distance_calculation"}
      /\ batch.status = "returned"
      /\ Resolvable(batch.pairs) ) =>
        /\ last.status = "ok"
        /\ Len(last.res) = Len(batch.pairs)
        /\ \A i \in 1..Len(batch.pairs) :
              last.res[i] = calculate_distance(points[get_point(batch.pairs[i][1])],
                                               points[get_point(batch.pairs[i][2])])

\* every (pair number, name) of the pairs whose name is not stored
AllMissing(point_pairs) ==
    {<<i - 1, point_pairs[i][j]>> : i \in 1..Len(point_pairs), j \in 1..2} \cap
    {r \in (0..Len(point_pairs)) \X PairNames : r[2] \notin DOMAIN point_index}

\* C18: when a name of the pairs is absent, parallel pairwise distance fails
\* with one not-found error that lists all missing references (both names
\* of a pair when both are missing, every affected pair), and computes no
\* distance.
C18_AllMissingListed ==
    [][( /\ last'.op = "parallel_distance_calculation"
         /\ batch.status = "idle"
         /\ ~Resolvable(batch'.pairs) ) =>
           /\ last'.status = "NotFound"
           /\ {last'.res[k] : k \in 1..Len(last'.res)} = AllMissing(batch'.pairs)
           /\ UNCHANGED metrics]_vars

\* ------------------------------------------------------------ bulk import
MaxCandidates == 2

\* the members of the enumeration
ObservationPosition ==
    {"inside", "outside", "above", "below", "beside", "within", "around"}

\* PointCreate: what the request layer accepts as a candidate
ValidCandidate(c) ==
    /\ c.x \in (0 - One)..One
    /\ c.o \in ObservationPosition
    /\ c.name \in Names \cup {None}

\* the candidates of the requests
CandidatePool == {c \in [x : {0, One}, o : {"inside"}, name : Names \cup {None}] :
                     ValidCandidate(c)}

RECURSIVE CandidateListsOf(_)
CandidateListsOf(n) ==
    IF n = 0 THEN {<<>>}
    ELSE LET shorter == CandidateListsOf(n - 1)
         IN  shorter \cup
             {Append(l, c) : l \in {s \in shorter : Len(s) = n - 1}, c \in CandidatePool}

\* SemanticPoint(**point_data.dict()): __init__ packs the axis values into a
\* float32 array, coords[4] = data.pop('o'); the value of 'o' is a member of
\* the enumeration, a word that float32 cannot take, so the assignment raises
\* ValueError
construct(c) ==
    IF c.o \in ObservationPosition
    THEN [status |-> "ValueError", point |-> SemanticPoint(ZeroVec, c.name)]
    ELSE [status |-> "ok",
          point |-> SemanticPoint([[ZeroVec EXCEPT ![1] = c.x] EXCEPT ![5] = c.o],
                                  c.name)]

\* a variant that swallows the exception without recording it
errors_after_Dropped(errors, idx, c) == errors

\* errors.append({"index": idx, "name": getattr(point_data, 'name', ...), ...})
errors_after(errors, idx, c) == Append(errors, [index |-> idx, name |-> c.name])

\* the loop of bulk_import_points from candidate number idx (0-based) on;
\* r holds the Space, imported, skipped and errors so far
RECURSIVE BulkLoop(_, _, _)
BulkLoop(cands, idx, r) ==
    IF idx >= Len(cands) THEN r
    ELSE LET c == cands[idx + 1]
             made == construct(c)
         IN  IF made.status # "ok"
             THEN BulkLoop(cands, idx + 1,
                           [r EXCEPT !.errors = errors_after(@, idx, c)])
             ELSE IF Lookup(r.space.point_index, made.point.name) # 0
             THEN BulkLoop(cands, idx + 1, [r EXCEPT !.skipped = @ + 1])
             ELSE BulkLoop(cands, idx + 1,
                           [r EXCEPT !.space = space_add_point(@, made.point),
                                     !.imported = @ + 1])

\* POST /import/bulk/
BulkImport ==
    \E cands \in CandidateListsOf(MaxCandidates) :
        LET r == BulkLoop(cands, 0, [space |-> ActiveSpace, imported |-> 0,
                                     skipped |-> 0, errors |-> <<>>])
        IN  /\ points' = r.space.points
            /\ point_index' = r.space.point_index
            /\ point_vectors' = r.space.point_vectors
            /\ last' = [NoCall EXCEPT !.op = "bulk_import", !.args = cands,
                           !.status = "ok",
                           !.res = <<[imported |-> r.imported, skipped |-> r.skipped,
                                      errors |-> r.errors]>>]
            /\ UNCHANGED <<metrics, dp, dout, file, batch, pt, now, threads, mem>>

NextBulk == AddPoint \/ BulkImport

SpecBulk == Init /\ [][NextBulk]_vars

\* C19: a bulk import of N candidates runs to completion and its totals sum
\* to N: imported + skipped + number of error entries = N, and each error
\* entry carries the index of the candidate that failed.
C19_TotalsSumToN ==
    last.op = "bulk_import" =>
        LET r == last.res[1]
            N == Len(last.args)
        IN  /\ last.status = "ok"
            /\ r.imported + r.skipped + Len(r.errors) = N
            /\ \A k \in 1..Len(r.errors) :
                  /\ r.errors[k].index \in 0..(N - 1)
                  /\ construct(last.args[r.errors[k].index + 1]).status # "ok"
            /\ \A i \in 1..N :
                  construct(last.args[i]).status # "ok" =>
                      \E k \in 1..Len(r.errors) : r.errors[k].index = i - 1

C19_Witness ==
    /\ last.op = "bulk_import"
    /\ Len(last.args) = 2
    /\ points # <<>>
    /\ Len(last.res[1].errors) = 2
    /\ last.res[1].errors[2].index = 1

\* C20: after a bulk import every valid candidate whose name was not in the
\* Space before (unnamed candidates included) is stored; the Space has grown
\* by exactly `imported`; every point stored before is unchanged.
C20_NewCandidatesStored ==
    [][last'.op = "bulk_import" =>
          LET cands == last'.args
              r == last'.res[1]
          IN  /\ \A i \in 1..Len(cands) :
                    (ValidCandidate(cands[i]) /\ cands[i].name \notin DOMAIN point_index) =>
                        \E k \in 1..Len(points') : points'[k].name = cands[i].name
              /\ Len(points') = Len(points) + r.imported
              /\ SubSeq(points', 1, Len(points)) = points]_vars

\* ------------------------------------------------- a point object by itself
MaxClock == 3

\* the accessors x, y, z, t, i: float(self.coords[0..3]) and float(self.coords[5])
accessor(coords, k) ==
    CASE k = "x" -> coords[1] [] k = "y" -> coords[2] [] k = "z" -> coords[3]
      [] k = "t" -> coords[4] [] k = "i" -> coords[6]

\* the slot of each axis in the fixed order [x, y, z, t, o, i, n] (1-based)
SlotOf(k) ==
    CASE k = "x" -> 1 [] k = "y" -> 2 [] k = "z" -> 3 [] k = "t" -> 4
      [] k = "o" -> 5 [] k = "i" -> 6 [] k = "n" -> 7

LinearAxes == {"x", "y", "z", "t", "i"}

\* the coordinate vectors points are constructed from; the constructor does
\* not range-check the entries (slot 5 may lie outside [0, 1])
PointVectors ==
    {ZeroVec, <<15, 15, 15, 15, 2 * One, 15, 60>>, <<0, 0, 0, 0, 0 - 25, 0, 0>>}

\* the single-axis updates callers make: a linear axis with a value, n with
\* a count
PointUpdates ==
    {<<k, v>> : k \in LinearAxes, v \in {30, One}} \cup {<<"n", 2 * One>>}

\* list(ObservationPosition): the members in the order of their definition
PositionList ==
    <<"inside", "outside", "above", "below", "beside", "within", "around">>

\* what callers pass as o: a member of the enumeration, or the normalized
\* float (in sixtieths)
CircularInputs ==
    [kind : {"member"}, word : {PositionList[k] : k \in 1..NumPositions}, val : {0}]
      \cup [kind : {"float"}, word : {""}, val : {0, 30, One}]

\* v = ObservationPosition(v) for a v that is no member: the lookup by value
\* knows the seven words only, a float raises ValueError
to_member(v) ==
    IF v.kind = "member" THEN [status |-> "ok", word |-> v.word]
    ELSE [status |-> "ValueError", word |-> ""]

\* the accessor o: idx = min(int(round(coords[4] * 6)), 6);
\* list(ObservationPosition)[max(0, idx)].  c is coords[4] * 6 in tenths;
\* round() goes to the nearest integer, a half to the even one
accessor_o(coords) ==
    LET c == (coords[5] * (NumPositions - 1) * 10) \div One
        q == c \div 10
        r == c % 10
        rounded == IF r < 5 THEN q ELSE IF r > 5 THEN q + 1
                   ELSE IF q % 2 = 0 THEN q ELSE q + 1
        idx == Min(rounded, NumPositions - 1)
    IN  PositionList[(IF idx > 0 THEN idx ELSE 0) + 1]

\* SemanticPoint(coords=...): created_at and updated_at each take their own
\* default_factory call of time.time(), one after the other
ConstructPoint ==
    \E coords \in PointVectors, t1 \in now..MaxClock :
        \E t2 \in t1..MaxClock :
            /\ pt' = [coords |-> coords, name |-> None,
                      created_at |-> t1, updated_at |-> t2]
            /\ now' = t2
            /\ last' = [NoCall EXCEPT !.op = "construct", !.status = "ok"]
            /\ UNCHANGED <<points, point_index, point_vectors, metrics, dp, dout,
                           file, batch, threads, mem>>

\* point.update(k=v) on the object: the slot is written, then
\* self.updated_at = time.time()
UpdateDetached ==
    \E kv \in PointUpdates, t \in now..MaxClock :
        /\ pt # NoPoint
        /\ pt' = [pt EXCEPT !.coords = update(@, kv[1], kv[2]), !.updated_at = t]
        /\ now' = t
        /\ last' = [NoCall EXCEPT !.op = "update", !.args = kv, !.status = "ok"]
        /\ UNCHANGED <<points, point_index, point_vectors, metrics, dp, dout,
                       file, batch, threads, mem>>

\* point.update(o=v): the conversion to a member raises before anything is
\* written; otherwise coords[4] = idx / 6 and updated_at is refreshed
UpdateCircular ==
    \E v \in CircularInputs, t \in now..MaxClock :
        LET m == to_member(v)
            idx == (CHOOSE k \in 1..NumPositions : PositionList[k] = m.word) - 1
            call == [NoCall EXCEPT !.op = "update",
                                   !.args = <<"o", v.kind, v.word, v.val>>]
        IN  /\ pt # NoPoint
            /\ IF m.status # "ok"
               THEN /\ last' = [call EXCEPT !.status = m.status]
                    /\ UNCHANGED <<pt, now>>
               ELSE /\ pt' = [pt EXCEPT !.coords = update(@, "o", idx),
                                        !.updated_at = t]
                    /\ now' = t
                    /\ last' = [call EXCEPT !.status = "ok"]
            /\ UNCHANGED <<points, point_index, point_vectors, metrics, dp, dout,
                           file, batch, threads, mem>>

NextPoint == ConstructPoint \/ UpdateDetached \/ UpdateCircular

SpecPoint == Init /\ [][NextPoint]_vars

\* C21: update with one linear axis among x, y, z, t, i overwrites the slot
\* of that axis in the order [x, y, z, t, o, i, n] and leaves the other six
\* coordinates unchanged; the accessor of the axis then returns the value.
C21_LinearAxisSlot ==
    [][(last'.op = "update" /\ pt # NoPoint /\ last'.args[1] \in LinearAxes) =>
          LET k == last'.args[1]
              v == last'.args[2]
          IN  /\ pt'.coords[SlotOf(k)] = v
              /\ accessor(pt'.coords, k) = v
              /\ \A j \in 1..7 : j # SlotOf(k) => pt'.coords[j] = pt.coords[j]]_vars

\* C22: a new point has updated_at = created_at; every update refreshes
\* updated_at, which never decreases; created_at <= updated_at always, and
\* created_at never changes after construction.
C22_Timestamps ==
    [][/\ last'.op = "construct" => pt'.updated_at = pt'.created_at
       /\ (last'.op = "update" /\ pt # NoPoint) =>
             /\ pt'.updated_at = now'
             /\ pt'.updated_at >= pt.updated_at
             /\ pt'.created_at = pt.created_at
       /\ pt'.created_at <= pt'.updated_at]_vars

\* C30: after every add_point call, on the replace path as on the append
\* path, the coordinate-matrix cache is absent, so the next read rebuilds it
\* from the current points.
C30_AddInvalidatesCache ==
    [][last'.op = "add_point" => ~point_vectors'.present]_vars

\* ------------------------------------------------------ SemanticOperations
MaxIds == 2
MaxSteps == 2
MaxClusters == 2

\* the Spaces the operations are built on: SemanticSpace(points)
OpsPopulations ==
    { <<>>,
      <<SemanticPoint(VecA, "a")>>,
      <<SemanticPoint(VecA, "a"), SemanticPoint(VecB, "b")>> }

InitOps ==
    /\ points \in OpsPopulations
    /\ point_index = IndexOf(points)
    /\ point_vectors = RebuildVectors(points, NoCache)
    /\ metrics = [distance_calls |-> 0, neighbor_searches |-> 0]
    /\ last = NoCall
    /\ dp = <<>>
    /\ dout = <<>>
    /\ file = NoFile
    /\ batch = NoBatch
    /\ pt = NoPoint
    /\ now = 0
    /\ threads = NoThreads
    /\ mem = NoMem

\* the lists of ids handed to semantic_centroid
RECURSIVE IdListsOf(_)
IdListsOf(n) ==
    IF n = 0 THEN {<<>>}
    ELSE LET shorter == IdListsOf(n - 1)
         IN  shorter \cup
             {Append(l, id) : l \in {s \in shorter : Len(s) = n - 1}, id \in PairNames}

Range(s) == {s[k] : k \in 1..Len(s)}

\* SemanticPoint.from_vector(vector): SemanticPoint defines no such
\* attribute, the lookup raises AttributeError
from_vector(vector) == [status |-> "AttributeError", point |-> SemanticPoint(vector, None)]

\* np.mean(vectors, axis=0)
RECURSIVE SumAxis(_, _, _)
SumAxis(pts, j, k) == IF k > Len(pts) THEN 0 ELSE pts[k].coords[j] + SumAxis(pts, j, k + 1)

\* semantic_centroid(point_ids)
semantic_centroid(point_ids) ==
    IF point_ids = <<>> THEN [status |-> "ValidationError", res |-> <<>>]
    ELSE LET member(p) == p.name \in Range(point_ids)
             pts == SelectSeq(points, member)
         IN  IF Len(pts) # Len(point_ids)
             THEN LET found_ids == {pts[k].name : k \in 1..Len(pts)}
                  IN  [status |-> "NotFound", res |-> <<Range(point_ids) \ found_ids>>]
             ELSE LET centroid_vector == [j \in 1..7 |-> SumAxis(pts, j, 1) \div Len(pts)]
                      centroid == from_vector(centroid_vector)
                  IN  IF centroid.status # "ok"
                      THEN [status |-> centroid.status, res |-> <<>>]
                      ELSE [status |-> "ok",
                            res |-> <<[centroid.point EXCEPT !.name = "centroid_of"]>>]

Centroid ==
    \E point_ids \in IdListsOf(MaxIds) :
        LET r == semantic_centroid(point_ids)
        IN  /\ last' = [NoCall EXCEPT !.op = "centroid", !.args = point_ids,
                                      !.status = r.status, !.res = r.res]
            /\ UNCHANGED <<points, point_index, point_vectors, metrics, dp, dout,
                           file, batch, pt, now, threads, mem>>

\* next((p for p in self.space.points if p.name == point_id), None): the
\* position of the first point of that name, 0 for None
FirstNamed(point_id) ==
    IF \E k \in 1..Len(points) : points[k].name = point_id
    THEN CHOOSE k \in 1..Len(points) :
            /\ points[k].name = point_id
            /\ \A j \in 1..(k - 1) : points[j].name # point_id
    ELSE 0

\* np.linspace(0, 1, steps)[k - 1], in sixtieths
linspace(steps, k) == IF steps = 1 THEN 0 ELSE (One * (k - 1)) \div (steps - 1)

\* semantic_interpolation(point1_id, point2_id, steps)
semantic_interpolation(point1_id, point2_id, steps) ==
    LET point1 == FirstNamed(point1_id)
        point2 == FirstNamed(point2_id)
    IN  IF point1 = 0 \/ point2 = 0 THEN [status |-> "NotFound", res |-> <<>>]
        ELSE LET v1 == to_vector(points[point1])
                 v2 == to_vector(points[point2])
                 \* interp_vector = v1 * (1 - alpha) + v2 * alpha
                 interp_vector(alpha) ==
                     [j \in 1..7 |-> (v1[j] * (One - alpha) + v2[j] * alpha) \div One]
                 made == [k \in 1..steps |->
                             from_vector(interp_vector(linspace(steps, k)))]
             IN  IF \E k \in 1..steps : made[k].status # "ok"
                 THEN [status |-> "AttributeError", res |-> <<>>]
                 ELSE [status |-> "ok",
                       res |-> [k \in 1..steps |->
                                   [point |-> made[k].point, alpha |-> linspace(steps, k)]]]

Interpolate ==
    \E id1 \in PairNames, id2 \in PairNames, steps \in 0..MaxSteps :
        LET r == semantic_interpolation(id1, id2, steps)
        IN  /\ last' = [NoCall EXCEPT !.op = "interpolate", !.args = <<id1, id2, steps>>,
                                      !.status = r.status, !.res = r.res]
            /\ UNCHANGED <<points, point_index, point_vectors, metrics, dp, dout,
                           file, batch, pt, now, threads, mem>>

\* a variant of the test that lets one cluster too many through
insufficient_OffByOne(n_points, n_clusters) == n_points + 1 < n_clusters

\* if len(self.space.points) < n_clusters: raise ValueError
insufficient(n_points, n_clusters) == n_points < n_clusters

\* find_semantic_clusters(n_clusters): KMeans.fit_predict is the library's;
\* it gives every point one of the cluster numbers 0..n_clusters-1
Clusters ==
    \E n_clusters \in 1..MaxClusters :
        LET call == [NoCall EXCEPT !.op = "clusters", !.k = n_clusters]
        IN  /\ IF insufficient(Len(points), n_clusters)
               THEN last' = [call EXCEPT !.status = "InsufficientData"]
               ELSE \E clusters \in [1..Len(points) -> 0..(n_clusters - 1)] :
                        last' = [call EXCEPT !.status = "ok", !.res = clusters]
            /\ UNCHANGED <<points, point_index, point_vectors, metrics, dp, dout,
                           file, batch, pt, now, threads, mem>>

\* project_to_lower_dimension(target_dim, method): an empty Space returns at
\* once; fit_transform is the library's and gives one row per point
Project ==
    \E target_dim \in 1..2, method \in {"pca", "tsne", "umap", "lda"} :
        LET call == [NoCall EXCEPT !.op = "project", !.name = method, !.k = target_dim]
        IN  /\ last' = IF Len(points) = 0 THEN [call EXCEPT !.status = "ok"]
                       ELSE IF method \in {"pca", "tsne", "umap"}
                       THEN [call EXCEPT !.status = "ok",
                                         !.res = [k \in 1..Len(points) |-> target_dim]]
                       ELSE [call EXCEPT !.status = "ValidationError"]
            /\ UNCHANGED <<points, point_index, point_vectors, metrics, dp, dout,
                           file, batch, pt, now, threads, mem>>

NextOps == Centroid \/ Interpolate \/ Clusters \/ Project

SpecOps == InitOps /\ [][NextOps]_vars

\* the ids of a list that name no stored point
MissingIds(point_ids) == {id \in Range(point_ids) : FirstNamed(id) = 0}

\* C23: centroid(names) fails with a validation error exactly when the list
\* is empty, with a not-found error naming every missing id exactly when a
\* listed name is absent, and succeeds otherwise, also when a present name
\* is repeated.
C23_CentroidOutcome ==
    last.op = "centroid" =>
        LET ids == last.args
        IN  /\ last.status = "ValidationError" <=> ids = <<>>
            /\ last.status = "NotFound" <=> MissingIds(ids) # {}
            /\ last.status = "NotFound" => last.res = <<MissingIds(ids)>>
            /\ (ids # <<>> /\ MissingIds(ids) = {}) => last.status = "ok"

\* C24: a successful centroid(names) returns a new unnamed point that is not
\* added to the Space and whose coordinates are the mean of the referenced
\* points' vectors (for one name: that point's coordinates).
C24_CentroidResult ==
    [][(last'.op = "centroid" /\ last'.args # <<>> /\ MissingIds(last'.args) = {}) =>
          /\ last'.status = "ok"
          /\ last'.res[1].name = None
          /\ \A j \in 1..7 :
                Len(last'.args) * last'.res[1].coords[j] =
                    SumAxis([k \in 1..Len(last'.args) |-> points[FirstNamed(last'.args[k])]],
                            j, 1)
          /\ UNCHANGED <<points, point_index>>]_vars

\* C25: interpolate(name1, name2, steps) with both endpoints present returns
\* exactly `steps` entries at evenly spaced fractions of [0, 1] in increasing
\* order, the first at name1 and the last at name2 for steps >= 2; it fails
\* with a not-found error if an endpoint is missing.
C25_Interpolate ==
    last.op = "interpolate" =>
        LET id1 == last.args[1]
            id2 == last.args[2]
            steps == last.args[3]
        IN  IF FirstNamed(id1) = 0 \/ FirstNamed(id2) = 0
            THEN last.status = "NotFound"
            ELSE /\ last.status = "ok"
                 /\ Len(last.res) = steps
                 /\ \A k \in 1..steps :
                       (steps - 1) * last.res[k].alpha = One * (k - 1)
                 /\ steps >= 2 =>
                       /\ last.res[1].point.coords = points[FirstNamed(id1)].coords
                       /\ last.res[steps].point.coords = points[FirstNamed(id2)].coords

\* C26: clusters(n_clusters=k) raises InsufficientData whenever k exceeds the
\* number of points; no clustering is done and the Space is unchanged.
C26_ClustersInsufficient ==
    [][(last'.op = "clusters" /\ last'.k > Len(points)) =>
          /\ last'.status = "InsufficientData"
          /\ last'.res = <<>>
          /\ UNCHANGED <<points, point_index, point_vectors, metrics>>]_vars

C26_Witness ==
    /\ last.op = "clusters"
    /\ last.k = Len(points) + 1
    /\ points # <<>>
    /\ last.status = "InsufficientData"

\* C27: project(target_dimensions, method) fails with a validation error for
\* every method tag other than 'pca', 'tsne' and 'umap', whatever the Space
\* holds, an empty Space included.
C27_ProjectMethod ==
    (last.op = "project" /\ last.name \notin {"pca", "tsne", "umap"}) =>
        last.status = "ValidationError"

\* --------------------------------------------- DistributedSemanticProcessor
MaxBatchSize == 2
MaxProcPoints == 3

\* SemanticSpace(points) with distinct points out of a pool of four, handed
\* to DistributedSemanticProcessor(space, n_workers)
ProcPopulations ==
    LET ProcPool == {SemanticPoint(VecA, "a"), SemanticPoint(VecB, "b"),
                     SemanticPoint(VecC, None), SemanticPoint(VecB, None)}
    IN  UNION {{pts \in [1..n -> ProcPool] :
                   \A i, j \in 1..n : pts[i] = pts[j] => i = j} :
               n \in 0..MaxProcPoints}

InitProc ==
    /\ points \in ProcPopulations
    /\ point_index = IndexOf(points)
    /\ point_vectors = RebuildVectors(points, NoCache)
    /\ metrics = [distance_calls |-> 0, neighbor_searches |-> 0]
    /\ last = NoCall
    /\ dp = <<>>
    /\ dout = <<>>
    /\ file = NoFile
    /\ batch = NoBatch
    /\ pt = NoPoint
    /\ now = 0
    /\ threads = NoThreads
    /\ mem = NoMem

\* the function callers hand over, applied to one point (in a worker
\* process, on a copy of the point)
process_func(point) == <<point.name, point.coords[1]>>

\* a variant of the split that drops a shorter last batch
batches_of_Full(pts, batch_size) ==
    [j \in 1..(Len(pts) \div batch_size) |->
        SubSeq(pts, (j - 1) * batch_size + 1, j * batch_size)]

\* [points[i:i + batch_size] for i in range(0, len(points), batch_size)]
batches_of(pts, batch_size) ==
    [j \in 1..((Len(pts) + batch_size - 1) \div batch_size) |->
        SubSeq(pts, (j - 1) * batch_size + 1, Min(j * batch_size, Len(pts)))]

\* futures = [executor.submit(partial_func, batch) for batch in batches]
SubmitBatches ==
    \E batch_size \in 1..MaxBatchSize :
        LET batches == batches_of(points, batch_size)
        IN  /\ batch.status = "idle"
            /\ batch' = [status |-> "running", pairs |-> batches,
                         futures |-> [i \in 1..Len(batches) |-> Future],
                         order |-> <<>>]
            /\ last' = [NoCall EXCEPT !.op = "process_in_batches", !.k = batch_size,
                                      !.status = "running"]
            /\ UNCHANGED <<points, point_index, point_vectors, metrics, dp, dout,
                           file, pt, now, threads, mem>>

\* a variant in which the workers run on the stored point objects
stored_after_Shared(pts, b) ==
    [k \in 1..Len(pts) |->
        IF \E j \in 1..Len(b) : b[j] = pts[k]
        THEN [pts[k] EXCEPT !.coords = update(@, "x", One)]
        ELSE pts[k]]

\* the stored points after a worker has run batch b: executor.submit pickles
\* the batch into the worker process, so what process_func writes into a
\* point (say point.update(x=1.0)) stays in the worker's copy
stored_after(pts, b) == pts

\* a worker process finishes batch i
BatchDone(i) ==
    /\ batch.status = "running"
    /\ last.op = "process_in_batches"
    /\ batch.futures[i].st = "pending"
    /\ batch' = [batch EXCEPT !.futures[i] = [st |-> "done", loc |-> 0,
                                              d |-> [k \in 1..Len(batch.pairs[i]) |->
                                                        process_func(batch.pairs[i][k])]],
                              !.order = Append(@, i)]
    /\ points' = stored_after(points, batch.pairs[i])
    /\ UNCHANGED <<point_index, point_vectors, metrics, last, dp, dout,
                   file, pt, now, threads, mem>>

\* results.extend(future.result()) for future in as_completed(futures)
RECURSIVE extend_all(_, _, _)
extend_all(futures, fs, k) ==
    IF k > Len(fs) THEN <<>>
    ELSE futures[fs[k]].d \o extend_all(futures, fs, k + 1)

\* process_in_batches returns once every future has been read
CollectProcessed ==
    /\ batch.status = "running"
    /\ last.op = "process_in_batches"
    /\ \A i \in 1..Len(batch.futures) : batch.futures[i].st = "done"
    /\ last' = [last EXCEPT !.status = "ok", !.res =
                   extend_all(batch.futures, as_completed(batch.futures, batch.order), 1)]
    /\ batch' = [batch EXCEPT !.status = "returned"]
    /\ UNCHANGED <<points, point_index, point_vectors, metrics, dp, dout,
                   file, pt, now, threads, mem>>

NextProc ==
    \/ SubmitBatches
    \/ \E i \in 1..Len(batch.futures) : BatchDone(i)
    \/ CollectProcessed

SpecProc == InitProc /\ [][NextProc]_vars

\* the contiguous batch number j of the point list, of size bs
BatchNo(j, bs) == SubSeq(points, (j - 1) * bs + 1, Min(j * bs, Len(points)))

\* the results of the batches taken in the order perm
RECURSIVE ResultsInOrder(_, _, _)
ResultsInOrder(perm, bs, k) ==
    IF k > Len(perm) THEN <<>>
    ELSE [i \in 1..Len(BatchNo(perm[k], bs)) |-> process_func(BatchNo(perm[k], bs)[i])]
         \o ResultsInOrder(perm, bs, k + 1)

InitConc ==
    /\ points = <<SemanticPoint(VecA, "a"), SemanticPoint(VecB, "b")>>
    /\ point_index = IndexOf(points)
    /\ point_vectors = RebuildVectors(points, NoCache)
    /\ metrics = [distance_calls |-> 0, neighbor_searches |-> 0]
    /\ last = NoCall
    /\ dp = <<>>
    /\ dout = <<>>
    /\ file = NoFile
    /\ batch = NoBatch
    /\ pt = NoPoint
    /\ now = 0
    /\ threads = NoThreads
    /\ mem = NoMem

\* add_point called while no read is running: it runs from start to end
AddQuiescent ==
    /\ \A t \in 1..MaxThreads : threads[t].pc \in {"idle", "done"}
    /\ \E coords \in CoordPool, name \in Names \cup {None} :
           add_point(SemanticPoint(coords, name))
    /\ UNCHANGED <<metrics, dp, dout, file, batch, pt, now, threads, mem>>

\* lines 190-223 on the cache the call reads: the outcomes it can have, and
\* whether the call reaches `self.metrics.neighbor_searches += 1`
find_outcomes(cache, ref, qvec, k0) ==
    LET distances == Distances(cache.rows, qvec)
        all_indices == [j \in 1..Len(points) |-> j]
        found == ListIndex(Len(points), ref, 1)
    IN  IF found.status = "ValueError"
        THEN {[status |-> "ValueError", res |-> <<>>, counted |-> FALSE]}
        ELSE IF Len(cache.rows) # Len(points)
        THEN {[status |-> "IndexError", res |-> <<>>, counted |-> FALSE]}
        ELSE
          LET dist == Masked(distances, found.idx)
              point_indices == Masked(all_indices, found.idx)
              k == ClampK(k0, Len(point_indices))
          IN  IF k <= 0
              THEN {[status |-> "ok", res |-> <<>>, counted |-> FALSE]}
              ELSE IF k >= Len(dist)
              THEN {[status |-> "ValueError", res |-> <<>>, counted |-> FALSE]}
              ELSE UNION {
                     LET top_k_distances ==
                             [j \in 1..k |-> dist[top_k_indices[j]]]
                     IN  {[status |-> "ok", counted |-> TRUE, res |->
                              ResultOf(point_indices, top_k_indices,
                                       top_k_distances, sorted_indices)]
                          : sorted_indices \in ArgSort(top_k_distances)}
                     : top_k_indices \in ArgPartition(dist, k)}

\* a thread enters calculate_distance (lines 147-169: both lookups, the
\* distance, and the read half of `distance_calls += 1`) or
\* find_nearest_neighbors (lines 178-187: the lookup, the empty check, the
\* `is None` test and, when the cache is absent, the np.vstack of the points)
StartCall(t) ==
    /\ threads[t].pc = "idle"
    /\ \E c \in [op : {"calculate_distance"}, name : Names, name2 : Names, k : {0}]
                  \cup [op : {"find_nearest_neighbors"}, name : Names,
                        name2 : {None}, k : 1..MaxK] :
        LET idx == get_point(c.name)
            idx2 == get_point(c.name2)
            call == [IdleThread EXCEPT !.op = c.op, !.name = c.name,
                                       !.name2 = c.name2, !.k = c.k, !.idx = idx,
                                       !.cache0 = point_vectors]
        IN  threads' = [threads EXCEPT ![t] =
              IF c.op = "calculate_distance"
              THEN IF idx = 0 \/ idx2 = 0
                   THEN [call EXCEPT !.pc = "done", !.status = "NotFound"]
                   ELSE [call EXCEPT !.pc = "calc_count", !.status = "ok",
                            !.res = <<calculate_distance(points[idx], points[idx2])>>,
                            !.loc = metrics.distance_calls]
              ELSE IF idx = 0
                   THEN [call EXCEPT !.pc = "done", !.status = "NotFound"]
                   ELSE IF points = <<>>
                   THEN [call EXCEPT !.pc = "done", !.status = "ok"]
                   ELSE IF ~point_vectors.present
                   THEN [call EXCEPT !.pc = "find_assign", !.built = vstack(points)]
                   ELSE [call EXCEPT !.pc = "find_compute"]]
    /\ UNCHANGED <<points, point_index, point_vectors, metrics, last, dp, dout,
                   file, batch, pt, now, mem>>

\* the write half of `self.metrics.distance_calls += 1`, and the return
CalcCount(t) ==
    /\ threads[t].pc = "calc_count"
    /\ metrics' = [metrics EXCEPT !.distance_calls = threads[t].loc + 1]
    /\ threads' = [threads EXCEPT ![t].pc = "done"]
    /\ UNCHANGED <<points, point_index, point_vectors, last, dp, dout,
                   file, batch, pt, now, mem>>

\* line 187: self._point_vectors = <the array the thread stacked>
FindAssign(t) ==
    /\ threads[t].pc = "find_assign"
    /\ point_vectors' = [present |-> TRUE, rows |-> threads[t].built]
    /\ threads' = [threads EXCEPT ![t].pc = "find_compute"]
    /\ UNCHANGED <<points, point_index, metrics, last, dp, dout,
                   file, batch, pt, now, mem>>

\* lines 189-218: the distances over self._point_vectors, the result list,
\* and the read half of `neighbor_searches += 1`
FindCompute(t) ==
    /\ threads[t].pc = "find_compute"
    /\ \E o \in find_outcomes(point_vectors, threads[t].idx,
                              to_vector(points[threads[t].idx]), threads[t].k) :
           threads' = [threads EXCEPT ![t] =
               [@ EXCEPT !.status = o.status, !.res = o.res,
                         !.loc = metrics.neighbor_searches,
                         !.pc = IF o.counted THEN "find_count" ELSE "done"]]
    /\ UNCHANGED <<points, point_index, point_vectors, metrics, last, dp, dout,
                   file, batch, pt, now, mem>>

\* the write half of `self.metrics.neighbor_searches += 1`, and the return
FindCount(t) ==
    /\ threads[t].pc = "find_count"
    /\ metrics' = [metrics EXCEPT !.neighbor_searches = threads[t].loc + 1]
    /\ threads' = [threads EXCEPT ![t].pc = "done"]
    /\ UNCHANGED <<points, point_index, point_vectors, last, dp, dout,
                   file, batch, pt, now, mem>>

NextConc ==
    \/ AddQuiescent
    \/ \E t \in 1..MaxThreads : StartCall(t)
    \/ \E t \in 1..MaxThreads : CalcCount(t)
    \/ \E t \in 1..MaxThreads : FindAssign(t)
    \/ \E t \in 1..MaxThreads : FindCompute(t)
    \/ \E t \in 1..MaxThreads : FindCount(t)

SpecConc == InitConc /\ [][NextConc]_vars

\* the outcomes the call of thread record c has when it runs alone on the
\* Space as it is: the cache it found, or the one it stacks itself
AloneOutcomes(c) ==
    IF c.op = "calculate_distance"
    THEN IF c.idx = 0 \/ get_point(c.name2) = 0
         THEN {<<"NotFound", <<>>>>}
         ELSE {<<"ok", <<calculate_distance(points[c.idx],
                                            points[get_point(c.name2)])>>>>}
    ELSE IF c.idx = 0 THEN {<<"NotFound", <<>>>>}
    ELSE {<<o.status, o.res>> :
            o \in find_outcomes(IF c.cache0.present THEN c.cache0
                                ELSE RebuildVectors(points, NoCache),
                                c.idx, to_vector(points[c.idx]), c.k)}

\* a step of a reading thread
ThreadStep == threads' # threads

\* the call of thread t returns in this step
Returns(t) == threads[t].pc # "done" /\ threads'[t].pc = "done"

\* C29: with no add, remove or load in progress, every step of concurrent
\* calculate_distance and find_nearest_neighbors calls leaves the point
\* sequence and the index as they were, a cache that is present afterwards
\* holds the vectors of the points, and a call that returns returns a result
\* it can return when it runs alone on these points.
C29_ConcurrentReadsSafe ==
    [][ThreadStep =>
         /\ points' = points
         /\ point_index' = point_index
         /\ point_vectors'.present => point_vectors'.rows = vstack(points')
         /\ \A t \in 1..MaxThreads :
                Returns(t) =>
                    <<threads'[t].status, threads'[t].res>> \in AloneOutcomes(threads[t])]_vars


\* --------------------------------------------------- unnamed points
\* C31: add_point of a point that has no name appends it: the sequence grows
\* by one and every point stored before stays where it was; two unnamed
\* points added to an empty Space give a Space of length 2.
C31_UnnamedAppends ==
    [][(last'.op = "add_point" /\ ~Truthy(last'.name)) =>
          /\ Len(points') = Len(points) + 1
          /\ \A j \in 1..Len(points) : points'[j] = points[j]]_vars


\* C32: every pair (q, d) a neighbour search for the stored point p returns
\* has d = calculate_distance(p, q) on the coordinates the points hold at the
\* time of the call, also after an update in place or a replacing add_point.
C32_DistancesCurrent ==
    (last.op = "find_nearest_neighbors" /\ last.status = "ok") =>
        \A j \in 1..Len(last.res) :
            last.res[j][2] =
                calculate_distance(points[last.idx], points[last.res[j][1]])


\* C33: a removal leaves the cache rebuilt from the remaining points, also
\* when the last point goes: afterwards the cache is absent or holds exactly
\* the rows of the points that remain (none when no point remains).
C33_RemoveRebuildsCache ==
    [][(last'.op = "delete_point" /\ last'.status = "ok") =>
          (point_vectors'.present => point_vectors'.rows = vstack(points'))]_vars


\* C34: a neighbour search that returns normally, an empty list included,
\* raises neighbor_searches by exactly one and leaves distance_calls as it was.
C34_SearchCounted ==
    [][(last'.op = "find_nearest_neighbors" /\ last'.status = "ok") =>
          /\ metrics'.neighbor_searches = metrics.neighbor_searches + 1
          /\ metrics'.distance_calls = metrics.distance_calls]_vars


C36_NoLostIncrement ==
    (/\ batch.status = "returned"
     /\ last.op \in {"batch_calculate_distances", "parallel_distance_calculation"}
     /\ last.status = "ok") =>
        metrics.distance_calls = Len(batch.pairs)


\* ------------------------------------------- the analytics over one Space
\* calculate_similarity_matrix: vectors = np.array([p.to_vector() ...]) is a
\* new array; entry (i, j) is the cosine of rows i and j, carried by the dot
\* product and the two squared norms (a zero norm is replaced by 1e-10)
calculate_similarity_matrix(pts) ==
    LET vectors == vstack(pts)
        Dot(v1, v2) ==
            v1[1] * v2[1] + v1[2] * v2[2] + v1[3] * v2[3] + v1[4] * v2[4]
                + v1[5] * v2[5] + v1[6] * v2[6] + v1[7] * v2[7]
    IN  [i \in 1..Len(pts) |-> [j \in 1..Len(pts) |->
            <<Dot(vectors[i], vectors[j]), Dot(vectors[i], vectors[i]),
              Dot(vectors[j], vectors[j])>>]]

SimilarityMatrix ==
    /\ last' = [NoCall EXCEPT !.op = "similarity_matrix", !.status = "ok",
                              !.res = calculate_similarity_matrix(points)]
    /\ UNCHANGED <<points, point_index, point_vectors, metrics, dp, dout,
                   file, batch, pt, now, threads, mem>>

\* the analytics called one after the other on a Space; process_in_batches
\* returns before the next call
NextAnalytics ==
    \/ batch.status # "running" /\ SimilarityMatrix
    \/ batch.status # "running" /\ NextOps
    \/ NextProc

SpecAnalytics == InitOps /\ [][NextAnalytics]_vars

Analytics ==
    {"similarity_matrix", "clusters", "project", "interpolate", "centroid",
     "process_in_batches"}

\* C37: the analytics only read the Space: every step of similarity_matrix,
\* clusters, project, interpolate, centroid and process_in_batches, whether
\* it ends in a result or in an error, leaves the point sequence with every
\* point's coordinates and name, and the name index, as they were.
C37_AnalyticsReadOnly ==
    [][last'.op \in Analytics =>
          /\ points' = points
          /\ point_index' = point_index]_vars

\* process_in_batches has returned one result per point over a Space that
\* holds a point whose x the handed function writes to another value
C37_Witness ==
    /\ last.op = "process_in_batches"
    /\ last.status = "ok"
    /\ Len(last.res) = 2
    /\ \E k \in 1..Len(points) : update(points[k].coords, "x", One) # points[k].coords


\* C38: the circular axis converts consistently: update(o=e) with a member e
\* is accepted and the accessor o then returns e; update with the normalized
\* float is accepted and stores that value in slot 4 (the fifth entry); and
\* the accessor o returns a member of the enumeration for any stored value.
C38_CircularConsistent ==
    [][/\ (last'.op = "update" /\ Len(last'.args) = 4 /\ last'.args[2] = "member") =>
             /\ last'.status = "ok"
             /\ accessor_o(pt'.coords) = last'.args[3]
       /\ (last'.op = "update" /\ Len(last'.args) = 4 /\ last'.args[2] = "float") =>
             /\ last'.status = "ok"
             /\ pt'.coords[5] = last'.args[4]
       /\ pt' # NoPoint => accessor_o(pt'.coords) \in ObservationPosition]_vars


\* ------------------------------------------------ arrays and their aliases
\* mem.heap holds the arrays, an array's address being its position;
\* mem.coords[i] is the address of points[i].coords, mem.vec the address of
\* the vector a to_vector call returned last (0: none), mem.cache.rows[i]
\* the address of row i of the cached matrix

\* the values written in place, into entry 0 of an array
WrittenValues == {15, 30}

\* a variant that hands out the array itself (`return self.coords`)
copy_View(heap, a) == [heap |-> heap, addr |-> a]

\* self.coords.copy(): a new array with the entries of the array at a
copy(heap, a) == [heap |-> Append(heap, heap[a]), addr |-> Len(heap) + 1]

\* np.vstack([p.to_vector() for p in self.points]): each to_vector copy is
\* copied again into the rows of one new matrix
RECURSIVE stack(_, _, _)
stack(heap, addrs, i) ==
    IF i > Len(addrs) THEN [heap |-> heap, rows |-> <<>>]
    ELSE LET c == copy(heap, addrs[i])
             row == [heap |-> Append(c.heap, c.heap[c.addr]),
                     addr |-> Len(c.heap) + 1]
             rest == stack(row.heap, addrs, i + 1)
         IN  [heap |-> rest.heap, rows |-> <<row.addr>> \o rest.rows]

\* the arrays a finished call no longer refers to are freed: the addresses in
\* use are renumbered in their order
Collect(m) ==
    LET S == {m.coords[i] : i \in 1..Len(m.coords)}
                 \cup (IF m.vec = 0 THEN {} ELSE {m.vec})
                 \cup {m.cache.rows[i] : i \in 1..Len(m.cache.rows)}
        Rank(T, a) == Cardinality({b \in T : b <= a})
        at(n) == CHOOSE a \in S : Rank(S, a) = n
    IN  [heap |-> [n \in 1..Cardinality(S) |-> m.heap[at(n)]],
         coords |-> [i \in 1..Len(m.coords) |-> Rank(S, m.coords[i])],
         vec |-> IF m.vec = 0 THEN 0 ELSE Rank(S, m.vec),
         cache |-> [present |-> m.cache.present,
                    rows |-> [i \in 1..Len(m.cache.rows) |-> Rank(S, m.cache.rows[i])]]]

\* space = SemanticSpace(); space.add_point(a); space.add_point(b): each
\* point owns its coords array, the cache is None after the appends
InitAlias ==
    /\ points = <<SemanticPoint(VecA, "a"), SemanticPoint(VecB, "b")>>
    /\ point_index = IndexOf(points)
    /\ point_vectors = NoCache
    /\ metrics = [distance_calls |-> 0, neighbor_searches |-> 0]
    /\ last = NoCall
    /\ dp = <<>>
    /\ dout = <<>>
    /\ file = NoFile
    /\ batch = NoBatch
    /\ pt = NoPoint
    /\ now = 0
    /\ threads = NoThreads
    /\ mem = [NoMem EXCEPT !.heap = <<VecA, VecB>>, !.coords = <<1, 2>>]

\* the stored points and the cache as the arrays in memory give them
Synced ==
    /\ points' = [i \in 1..Len(points) |->
                     [points[i] EXCEPT !.coords = mem'.heap[mem'.coords[i]]]]
    /\ point_vectors' =
           [present |-> mem'.cache.present,
            rows |-> [i \in 1..Len(mem'.cache.rows) |-> mem'.heap[mem'.cache.rows[i]]]]
    /\ UNCHANGED <<point_index, metrics, dp, dout, file, batch, pt, now, threads>>

\* v = points[i].to_vector()
ToVector ==
    \E i \in 1..Len(points) :
        LET c == copy(mem.heap, mem.coords[i])
        IN  /\ mem' = Collect([mem EXCEPT !.heap = c.heap, !.vec = c.addr])
            /\ last' = [NoCall EXCEPT !.op = "to_vector", !.idx = i, !.status = "ok",
                                      !.res = <<mem'.heap[mem'.vec]>>]
            /\ Synced

\* self._point_vectors = np.vstack([...]) (lines 125 and 187)
RebuildCache ==
    LET s == stack(mem.heap, mem.coords, 1)
    IN  /\ mem' = Collect([mem EXCEPT !.heap = s.heap,
                                      !.cache = [present |-> TRUE, rows |-> s.rows]])
        /\ last' = [NoCall EXCEPT !.op = "vstack", !.status = "ok"]
        /\ Synced

\* the caller writes into the vector it was handed: v[0] = w
WriteVector ==
    \E w \in WrittenValues :
        /\ mem.vec # 0
        /\ mem' = [mem EXCEPT !.heap[mem.vec][1] = w]
        /\ last' = [NoCall EXCEPT !.op = "write_vector", !.args = <<w>>, !.status = "ok"]
        /\ Synced

\* points[i].update(x=w): self.coords[0] = float(w), in place
WriteCoords ==
    \E i \in 1..Len(points), w \in WrittenValues :
        /\ mem' = [mem EXCEPT !.heap[mem.coords[i]] = update(@, "x", w)]
        /\ last' = [NoCall EXCEPT !.op = "update", !.idx = i, !.args = <<"x", w>>,
                                  !.status = "ok"]
        /\ Synced

\* an in-place write into row i of the cached matrix: _point_vectors[i, 0] = w
WriteCache ==
    \E i \in 1..Len(mem.cache.rows), w \in WrittenValues :
        /\ mem' = [mem EXCEPT !.heap[mem.cache.rows[i]][1] = w]
        /\ last' = [NoCall EXCEPT !.op = "write_cache", !.idx = i, !.args = <<w>>,
                                  !.status = "ok"]
        /\ Synced

NextAlias == ToVector \/ RebuildCache \/ WriteVector \/ WriteCoords \/ WriteCache

SpecAlias == InitAlias /\ [][NextAlias]_vars

\* the vector the caller holds
Held(m) == IF m.vec = 0 THEN <<>> ELSE m.heap[m.vec]

\* C39: to_vector hands out an independent copy of the coordinates and the
\* cached matrix shares no row with a point: a write into the returned
\* vector changes neither a point nor the cache, an in-place update of a
\* point changes neither the cache nor a vector handed out before, and a
\* write into a cache row changes no point.
C39_IndependentCopies ==
    [][/\ last'.op = "to_vector" =>
             /\ last'.res = <<points[last'.idx].coords>>
             /\ points' = points
             /\ point_vectors' = point_vectors
       /\ last'.op = "write_vector" =>
             /\ points' = points
             /\ point_vectors' = point_vectors
       /\ last'.op = "update" =>
             /\ point_vectors' = point_vectors
             /\ Held(mem') = Held(mem)
             /\ \A j \in 1..Len(points) : j # last'.idx => points'[j] = points[j]
       /\ last'.op = "write_cache" => points' = points]_vars

\* a caller has written into the vector it got from to_vector while the
\* cache is built: the point and its cache row still hold the old entry
C39_Witness ==
    /\ last.op = "write_vector"
    /\ mem.cache.present
    /\ Held(mem)[1] = 30
    /\ points[1].coords[1] = 0
    /\ point_vectors.rows[1][1] = 0

=============================================================================
